---- MODULE Spec2Model ----
\* Verification model of phylodist/histogram.py: per-sample taxonomy
\* histograms (computeAll, computeAllForSamples), validation of a histogram
\* collection, and the two merge entry points (mergeAcrossSamples,
\* mergeAcrossSamplesTaxLevels).  pandas DataFrames are modelled as explicit
\* tables living in a heap of objects, so that copying and in-place
\* operations can be told apart.
EXTENDS Integers, Sequences, FiniteSets, TLC

\* ------------------------------------------------------------------ bounds
\* Total number of Records over all Sample Tables of the Sample Collection.
MaxRecords == 2

\* ---------------------------------------------------------- value universe
\* phylodist.constants.TAXONOMY_HIERARCHY (two coarsest levels).
TAXONOMY_HIERARCHY == <<"domain", "phylum">>

\* A level name that is not in the hierarchy.
UnknownLevel == "strain"

\* Taxonomy strings are coded as positive integers; NullValue is pandas NaN.
TaxValues == {1, 2}
NullValue == 0

\* Sample identifiers, in the iteration order of the dictionaries.
SampleKeys == <<"s1", "s2">>

\* A sample identifier that only occurs in metadata.
ExtraKey == "s9"

\* ------------------------------------------------------------------ labels
\* Row and column labels.  A string label has an empty tup; a group key of
\* one column is a scalar ("val"); a group key of several columns is a tuple.
Str(s) == [tag |-> s, tup |-> <<>>]
Pos(i) == [tag |-> "#", tup |-> <<i>>]
GroupKey(t) == [tag |-> IF Len(t) = 1 THEN "val" ELSE "tuple", tup |-> t]
IsTuple(l) == l.tag = "tuple"

\* ------------------------------------------------------------------- cells
NaN == [t |-> "nan", n |-> 0, d |-> 1]
IntCell(i) == [t |-> "int", n |-> i, d |-> 1]
StrCell(v) == IF v = NullValue THEN NaN ELSE [t |-> "str", n |-> v, d |-> 1]

RECURSIVE GCD(_, _)
GCD(a, b) == IF b = 0 THEN a ELSE GCD(b, a % b)

\* A float, kept as an exact fraction in lowest terms.
FloatCell(num, den) ==
    LET g == GCD(num, den)
    IN  IF g = 0 THEN [t |-> "float", n |-> 0, d |-> 1]
        ELSE [t |-> "float", n |-> num \div g, d |-> den \div g]

FloatAdd(a, b) == FloatCell(a.n * b.d + b.n * a.d, a.d * b.d)

\* --------------------------------------------------------------- sequences
RECURSIVE LexLess(_, _)
LexLess(a, b) ==
    IF a = <<>> THEN b # <<>>
    ELSE IF b = <<>> THEN FALSE
    ELSE IF Head(a) # Head(b) THEN Head(a) < Head(b)
    ELSE LexLess(Tail(a), Tail(b))

RECURSIVE SortedKeys(_)
SortedKeys(S) ==
    IF S = {} THEN <<>>
    ELSE LET m == CHOOSE x \in S : \A y \in S \ {x} : LexLess(x, y)
         IN  <<m>> \o SortedKeys(S \ {m})

IndexOf(seq, x) ==
    IF \E i \in 1..Len(seq) : seq[i] = x
    THEN CHOOSE i \in 1..Len(seq) : seq[i] = x /\ \A j \in 1..(i - 1) : seq[j] # x
    ELSE 0

Range(seq) == {seq[i] : i \in 1..Len(seq)}

\* -------------------------------------------------------------- DataFrames
\* data is row-major: data[i][j] is the cell of row index[i], column
\* columns[j].  indexNames / columnsNames are the names of the index levels
\* ("" is None), indexKind / columnsKind tell an Index from a MultiIndex.
\* names is the plain object attribute `names` of the frame.
DataFrame(idx, idxNames, cols, colNames, cells) ==
    [index |-> idx, indexNames |-> idxNames,
     indexKind |-> IF Len(idxNames) > 1 THEN "MultiIndex" ELSE "Index",
     columns |-> cols, columnsNames |-> colNames, columnsKind |-> "Index",
     data |-> cells, names |-> <<>>]

\* A Sample Table: one row per Record, one column per hierarchy level.
SampleTable(records) ==
    DataFrame([i \in 1..Len(records) |-> Pos(i)], <<"">>,
              [j \in 1..Len(TAXONOMY_HIERARCHY) |-> Str(TAXONOMY_HIERARCHY[j])], <<"">>,
              [i \in 1..Len(records) |->
                  [j \in 1..Len(TAXONOMY_HIERARCHY) |-> StrCell(records[i][j])]])

\* DataFrame.T
Transpose(df) ==
    [df EXCEPT !.index = df.columns, !.indexNames = df.columnsNames,
               !.indexKind = df.columnsKind,
               !.columns = df.index, !.columnsNames = df.indexNames,
               !.columnsKind = df.indexKind,
               !.data = [j \in 1..Len(df.columns) |->
                            [i \in 1..Len(df.index) |-> df.data[i][j]]]]

\* The column of df labelled col, as a sequence of cells.
Column(df, col) ==
    LET j == IndexOf(df.columns, col)
    IN  [i \in 1..Len(df.index) |-> df.data[i][j]]

\* ---------------------------------------------------------------- computeAll
\* phylodistDataFrame.groupby(by).size(): one entry per distinct key, keys in
\* sorted order; a row with NaN in any key column belongs to no group.
GroupBySize(df, by) ==
    LET cols == [k \in 1..Len(by) |-> IndexOf(df.columns, Str(by[k]))]
        keyCells(r) == [k \in 1..Len(by) |-> df.data[r][cols[k]]]
        grouped == {r \in 1..Len(df.index) :
                       \A k \in 1..Len(by) : keyCells(r)[k] # NaN}
        keyOf(r) == [k \in 1..Len(by) |-> keyCells(r)[k].n]
        keys == SortedKeys({keyOf(r) : r \in grouped})
    IN  [index |-> [i \in 1..Len(keys) |-> GroupKey(keys[i])],
         names |-> by,
         values |-> [i \in 1..Len(keys) |->
                        Cardinality({r \in grouped : keyOf(r) = keys[i]})]]

\* Positions 1..n ordered by descending value, ties in original order.
RECURSIVE SortDescending(_, _)
SortDescending(values, todo) ==
    IF todo = {} THEN <<>>
    ELSE LET m == CHOOSE i \in todo :
                     \A j \in todo \ {i} :
                        values[i] > values[j] \/ (values[i] = values[j] /\ i < j)
         IN  <<m>> \o SortDescending(values, todo \ {m})

RECURSIVE SumSeq(_)
SumSeq(s) == IF s = <<>> THEN 0 ELSE Head(s) + SumSeq(Tail(s))

\* lambda x: 100 * x / float(x.sum()), applied to the count column.
Percent(x) ==
    LET total == SumSeq(x)
    IN  [i \in 1..Len(x) |-> FloatCell(100 * x[i], total)]

\* The Level Histogram of level i (1-based) of one Sample Table.
LevelHistogram(df, i) ==
    LET sizes == GroupBySize(df, SubSeq(TAXONOMY_HIERARCHY, 1, i))
        order == SortDescending(sizes.values, 1..Len(sizes.values))
        count == [r \in 1..Len(order) |-> sizes.values[order[r]]]
        percent == Percent(count)
    IN  DataFrame([r \in 1..Len(order) |-> sizes.index[order[r]]], sizes.names,
                  <<Str("count"), Str("percent")>>, <<"">>,
                  [r \in 1..Len(order) |-> <<IntCell(count[r]), percent[r]>>])

\* computeAll: the tables of all levels, in hierarchy order.
computeAll(phylodistDataFrame) ==
    [i \in 1..Len(TAXONOMY_HIERARCHY) |-> LevelHistogram(phylodistDataFrame, i)]

\* ------------------------------------------------------------------- heap
\* Every table is an object of the heap; a reference is its position.
Alloc(h, obj) == [heap |-> Append(h, obj), ref |-> Len(h) + 1]

\* A Histogram Collection argument: a dict of sample -> (level -> table
\* reference), or some other object when isDict is FALSE.
NotADict == [isDict |-> FALSE, entries |-> <<>>]
EmptyDict == [isDict |-> TRUE, entries |-> <<>>]

\* ------------------------------------------------------------- validation
\* Variant: the emptiness test written `samples <= 1`.
validateOffByOne(sampleDictTaxHistDict) ==
    IF ~sampleDictTaxHistDict.isDict THEN "TypeError"
    ELSE IF Len(sampleDictTaxHistDict.entries) <= 1 THEN "ValueError"
    ELSE "ok"

\* validateSampleDictTaxHistDict: the error it raises, or "ok".
validateSampleDictTaxHistDict(sampleDictTaxHistDict) ==
    IF ~sampleDictTaxHistDict.isDict THEN "TypeError"
    ELSE IF Len(sampleDictTaxHistDict.entries) < 1 THEN "ValueError"
    ELSE "ok"

\* ------------------------------------------------------ table primitives
\* The frame without the column labelled col.
DropColumn(df, col) ==
    LET keep == SelectSeq([j \in 1..Len(df.columns) |-> j],
                          LAMBDA j : df.columns[j] # col)
    IN  [df EXCEPT !.columns = [k \in 1..Len(keep) |-> df.columns[keep[k]]],
                   !.data = [i \in 1..Len(df.index) |->
                               [k \in 1..Len(keep) |-> df.data[i][keep[k]]]]]

\* The frame with the column labelled old relabelled new.
RenameColumn(df, old, new) ==
    [df EXCEPT !.columns = [j \in 1..Len(df.columns) |->
                               IF df.columns[j] = old THEN new ELSE df.columns[j]]]

\* Variant: the Level Histogram itself is used, `count` is not dropped
\* into a new object.
dropNoCopy(h, ref, col) == [heap |-> h, ref |-> ref]

\* DataFrame.drop(col, 1): a new object, the receiver is left alone.
drop(h, ref, col) == Alloc(h, DropColumn(h[ref], col))

\* DataFrame.rename(columns={old: new}): a new object.
rename(h, ref, old, new) == Alloc(h, RenameColumn(h[ref], old, new))

\* DataFrame.rename(columns={old: new}, inplace=True): changes the receiver.
renameInplace(h, ref, old, new) ==
    [h EXCEPT ![ref] = RenameColumn(h[ref], old, new)]

\* The cell of the row labelled key in column j; NaN when there is no such row.
CellAt(df, key, j) ==
    LET i == IndexOf(df.index, key)
    IN  IF i = 0 THEN NaN ELSE df.data[i][j]

RECURSIVE SortedLabels(_)
SortedLabels(S) ==
    IF S = {} THEN <<>>
    ELSE LET m == CHOOSE x \in S : \A y \in S : ~LexLess(y.tup, x.tup)
         IN  <<m>> \o SortedLabels(S \ {m})

\* Variant: how='inner', only the row keys both sides have.
MergeInner(left, right) ==
    LET keys == SortedLabels(Range(left.index) \cap Range(right.index))
        nl == Len(left.columns)
        nr == Len(right.columns)
    IN  [left EXCEPT
            !.index = keys,
            !.columns = left.columns \o right.columns,
            !.data = [i \in 1..Len(keys) |->
                        [j \in 1..(nl + nr) |->
                            IF j <= nl THEN CellAt(left, keys[i], j)
                            ELSE CellAt(right, keys[i], j - nl)]]]

\* pd.merge(left, right, how='outer', left_index=True, right_index=True):
\* the row keys of both sides in sorted order, the columns of left followed
\* by the columns of right, NaN where a side has no such row.
MergeOuter(left, right) ==
    LET keys == SortedLabels(Range(left.index) \cup Range(right.index))
        nl == Len(left.columns)
        nr == Len(right.columns)
    IN  [left EXCEPT
            !.index = keys,
            !.indexNames = IF left.indexNames = right.indexNames
                           THEN left.indexNames
                           ELSE [k \in 1..Len(left.indexNames) |-> ""],
            !.columns = left.columns \o right.columns,
            !.data = [i \in 1..Len(keys) |->
                        [j \in 1..(nl + nr) |->
                            IF j <= nl THEN CellAt(left, keys[i], j)
                            ELSE CellAt(right, keys[i], j - nl)]]]

\* Variant: how='right', the rows of right in their order.
MergeRight(left, right) ==
    LET nl == Len(left.columns)
        nr == Len(right.columns)
    IN  [left EXCEPT
            !.index = right.index,
            !.columns = left.columns \o right.columns,
            !.columnsNames = <<"">>,
            !.columnsKind = "Index",
            !.data = [i \in 1..Len(right.index) |->
                        [j \in 1..(nl + nr) |->
                            IF j <= nl THEN CellAt(left, right.index[i], j)
                            ELSE right.data[i][j - nl]]]]

\* pd.merge(left, right, how='left', left_index=True, right_index=True):
\* the rows of left in their order, the columns of left followed by the
\* columns of right (together a plain Index without a name), NaN where
\* right has no row of that key.
MergeLeft(left, right) ==
    LET nl == Len(left.columns)
        nr == Len(right.columns)
    IN  [left EXCEPT
            !.columns = left.columns \o right.columns,
            !.columnsNames = <<"">>,
            !.columnsKind = "Index",
            !.data = [i \in 1..Len(left.index) |->
                        [j \in 1..(nl + nr) |->
                            IF j <= nl THEN left.data[i][j]
                            ELSE CellAt(right, left.index[i], j - nl)]]]

\* ------------------------------------------------------ mergeAcrossSamples
LevelIndex(taxonomyLevel) == IndexOf(TAXONOMY_HIERARCHY, taxonomyLevel)

\* The loop over the samples after an iteration: mergedPhylodistHist holds
\* the table just allocated, first is False, reads counts the Level
\* Histograms looked up so far.
LoopState(merged, reads) ==
    [heap |-> merged.heap, merged |-> merged.ref, first |-> FALSE, reads |-> reads]

\* Lines 156-158: the first sample's table, percent renamed into a new object.
MergeFirst(tmpDF, sample, reads) ==
    LoopState(rename(tmpDF.heap, tmpDF.ref, Str("percent"), Str(sample)), reads)

\* Lines 167-170: the outer join of mergedPhylodistHist and tmpDF.
JoinTables(h, merged, tmpDF, reads) ==
    LoopState(Alloc(h, MergeOuter(h[merged], h[tmpDF])), reads)

\* Lines 163-170: a later sample's table, percent renamed in place, joined.
MergeNext(merged, tmpDF, sample, reads) ==
    JoinTables(renameInplace(tmpDF.heap, tmpDF.ref, Str("percent"), Str(sample)),
               merged, tmpDF.ref, reads)

\* One iteration of the loop over the samples; tmpDF is the sample's Level
\* Histogram with count dropped.
MergeSample(st, entry, lvl) ==
    IF st.first
    THEN MergeFirst(drop(st.heap, entry.hists[lvl], Str("count")),
                    entry.key, st.reads + 1)
    ELSE MergeNext(st.merged, drop(st.heap, entry.hists[lvl], Str("count")),
                   entry.key, st.reads + 1)

RECURSIVE MergeLoop(_, _, _)
MergeLoop(st, entries, lvl) ==
    IF entries = <<>> THEN st
    ELSE MergeLoop(MergeSample(st, Head(entries), lvl), Tail(entries), lvl)

\* The outcome of a call that raises: no table is returned.
Raise(h, error) == [status |-> error, heap |-> h, ref |-> 0, reads |-> 0]

\* The outcome of a call that returns mergedPhylodistHist.
MergeResult(st) ==
    [status |-> "ok", heap |-> st.heap, ref |-> st.merged, reads |-> st.reads]

\* Variant: validation placed before the level check.
mergeValidateFirst(h, sampleDictTaxHistDict, taxonomyLevel) ==
    IF validateSampleDictTaxHistDict(sampleDictTaxHistDict) # "ok"
    THEN Raise(h, validateSampleDictTaxHistDict(sampleDictTaxHistDict))
    ELSE IF taxonomyLevel \notin Range(TAXONOMY_HIERARCHY)
    THEN Raise(h, "ValueError:level")
    ELSE MergeResult(MergeLoop([heap |-> h, merged |-> 0, first |-> TRUE, reads |-> 0],
                               sampleDictTaxHistDict.entries,
                               LevelIndex(taxonomyLevel)))

\* mergeAcrossSamples(sampleDictTaxHistDict, taxonomyLevel) run on heap h:
\* the error raised or "ok", the heap afterwards, the reference returned
\* (0 when an error is raised) and the number of Level Histograms read.
mergeAcrossSamples(h, sampleDictTaxHistDict, taxonomyLevel) ==
    IF taxonomyLevel \notin Range(TAXONOMY_HIERARCHY)
    THEN Raise(h, "ValueError:level")
    ELSE IF validateSampleDictTaxHistDict(sampleDictTaxHistDict) # "ok"
    THEN Raise(h, validateSampleDictTaxHistDict(sampleDictTaxHistDict))
    ELSE MergeResult(MergeLoop([heap |-> h, merged |-> 0, first |-> TRUE, reads |-> 0],
                               sampleDictTaxHistDict.entries,
                               LevelIndex(taxonomyLevel)))

\* --------------------------------------------- mergeAcrossSamplesTaxLevels
\* The metadata argument: None, a DataFrame of the heap, or another object.
NoMetadata == [kind |-> "None", ref |-> 0]
NotADataFrame == [kind |-> "other", ref |-> 0]
MetadataFrame(ref) == [kind |-> "DataFrame", ref |-> ref]

\* The outcome of mergeAcrossSamplesTaxLevels when it raises.
RaiseLevels(h, error, reads) ==
    [status |-> error, heap |-> h, refs |-> <<>>, reads |-> reads]

\* The outcome of a join that succeeded.
Joined(a) == [status |-> "ok", heap |-> a.heap, ref |-> a.ref]

\* Lines 110-112, pd.merge(tmpDF, metadata, how='left', ...): pandas refuses
\* a right-hand side that is not a table, None included.
mergeMetadata(tmpDF, metadata) ==
    IF metadata.kind # "DataFrame"
    THEN [status |-> "PandasError", heap |-> tmpDF.heap, ref |-> 0]
    ELSE Joined(Alloc(tmpDF.heap,
                      MergeLeft(tmpDF.heap[tmpDF.ref], tmpDF.heap[metadata.ref])))

\* Lines 114-119: MultiIndex.from_tuples makes an index without level names;
\* the hierarchy names are then stored in the attribute `names` of the frame.
labelIndex(df, taxonomyLevel) ==
    IF IsTuple(df.index[1])
    THEN [df EXCEPT !.indexKind = "MultiIndex",
                    !.indexNames = [k \in 1..Len(df.index[1].tup) |-> ""],
                    !.names = SubSeq(TAXONOMY_HIERARCHY, 1, Len(df.index[1].tup))]
    ELSE [df EXCEPT !.indexNames = <<taxonomyLevel>>]

\* Lines 114-120: tmpDF.index[0] needs a row; the labelled table is stored
\* under the level.
StoreLevel(st, h, tmpDF, taxonomyLevel, reads) ==
    IF Len(tmpDF.index) = 0
    THEN RaiseLevels(Append(h, tmpDF), "IndexError", reads)
    ELSE [status |-> "ok",
          heap |-> Append(h, labelIndex(tmpDF, taxonomyLevel)),
          refs |-> Append(st.refs, Len(h) + 1),
          reads |-> reads]

\* Line 113: the joined table transposed back, unless the join failed.
LabelLevel(st, joined, taxonomyLevel, reads) ==
    IF joined.status # "ok"
    THEN RaiseLevels(joined.heap, joined.status, reads)
    ELSE StoreLevel(st, joined.heap, Transpose(joined.heap[joined.ref]),
                    taxonomyLevel, reads)

\* Lines 106-112: the merged table m transposed, its index named 'sample',
\* joined with the metadata.
JoinLevel(st, m, metadata, taxonomyLevel) ==
    LabelLevel(st,
               mergeMetadata(
                   Alloc(m.heap,
                         [Transpose(m.heap[m.ref]) EXCEPT !.indexNames = <<"sample">>]),
                   metadata),
               taxonomyLevel, st.reads + m.reads)

\* One iteration of the loop over the hierarchy levels.
MergeLevel(st, metadata, sampleDictTaxHistDict, taxonomyLevel) ==
    JoinLevel(st, mergeAcrossSamples(st.heap, sampleDictTaxHistDict, taxonomyLevel),
              metadata, taxonomyLevel)

RECURSIVE LevelLoop(_, _, _, _)
LevelLoop(st, metadata, sampleDictTaxHistDict, levels) ==
    IF levels = <<>> \/ st.status # "ok" THEN st
    ELSE LevelLoop(MergeLevel(st, metadata, sampleDictTaxHistDict, Head(levels)),
                   metadata, sampleDictTaxHistDict, Tail(levels))

\* Variant: the metadata type check placed before validation.
taxLevelsMetadataFirst(h, sampleDictTaxHistDict, metadata) ==
    IF metadata.kind \notin {"None", "DataFrame"}
    THEN RaiseLevels(h, "TypeError:metadata", 0)
    ELSE IF validateSampleDictTaxHistDict(sampleDictTaxHistDict) # "ok"
    THEN RaiseLevels(h, validateSampleDictTaxHistDict(sampleDictTaxHistDict), 0)
    ELSE LevelLoop([status |-> "ok", heap |-> h, refs |-> <<>>, reads |-> 0],
                   metadata, sampleDictTaxHistDict, TAXONOMY_HIERARCHY)

\* mergeAcrossSamplesTaxLevels(sampleDictTaxHistDict, metadata) run on heap
\* h: the error raised or "ok", the heap afterwards, the references of the
\* returned tables in hierarchy order, the number of Level Histograms read.
mergeAcrossSamplesTaxLevels(h, sampleDictTaxHistDict, metadata) ==
    IF validateSampleDictTaxHistDict(sampleDictTaxHistDict) # "ok"
    THEN RaiseLevels(h, validateSampleDictTaxHistDict(sampleDictTaxHistDict), 0)
    ELSE IF metadata.kind \notin {"None", "DataFrame"}
    THEN RaiseLevels(h, "TypeError:metadata", 0)
    ELSE LevelLoop([status |-> "ok", heap |-> h, refs |-> <<>>, reads |-> 0],
                   metadata, sampleDictTaxHistDict, TAXONOMY_HIERARCHY)

\* ----------------------------------------------------- computeAllForSamples
RECURSIVE SweepLoop(_, _)
SweepLoop(st, sweep) ==
    IF sweep = <<>> THEN st
    ELSE LET hists == computeAll(st.heap[Head(sweep).ref])
             n == Len(st.heap)
         IN  SweepLoop([heap |-> st.heap \o hists,
                        entries |-> Append(st.entries,
                            [key |-> Head(sweep).key,
                             hists |-> [i \in 1..Len(hists) |-> n + i]])],
                       Tail(sweep))

\* computeAllForSamples(phylodistSweepDict) run on heap h: the heap
\* afterwards and the Histogram Collection returned.
computeAllForSamples(h, phylodistSweepDict) ==
    LET st == SweepLoop([heap |-> h, entries |-> <<>>], phylodistSweepDict)
    IN  [heap |-> st.heap, dict |-> [isDict |-> TRUE, entries |-> st.entries]]

\* ------------------------------------------------------------------ inputs
Records == [1..Len(TAXONOMY_HIERARCHY) -> TaxValues \cup {NullValue}]

\* Sample Tables of at most n Records, rows in non-decreasing order.
RecordLists(n) ==
    {t \in UNION {[1..k -> Records] : k \in 0..n} :
        \A i \in 1..(Len(t) - 1) : ~LexLess(t[i + 1], t[i])}

\* Sample Collections: the first k sample identifiers, each with a Sample
\* Table, MaxRecords Records in all.
RECURSIVE RecordCount(_)
RecordCount(tables) ==
    IF tables = <<>> THEN 0 ELSE Len(Head(tables)) + RecordCount(Tail(tables))

SweepInputs ==
    {ts \in UNION {[1..k -> RecordLists(MaxRecords)] : k \in 0..Len(SampleKeys)} :
        RecordCount(ts) <= MaxRecords}

\* Metadata Tables: one column "group", rows keyed by sample identifiers.
MetadataKeys == {<<>>, <<"s1">>, <<ExtraKey>>, <<ExtraKey, "s1">>}
MetadataTable(keys) ==
    DataFrame([i \in 1..Len(keys) |-> Str(keys[i])], <<"">>,
              <<Str("group")>>, <<"">>,
              [i \in 1..Len(keys) |-> <<[t |-> "str", n |-> 10 + i, d |-> 1]>>])

\* ------------------------------------------------------------------- state
VARIABLES
    heap,                   \* the tables, by reference
    phylodistSweepDict,     \* the caller's Sample Collection: key, table ref
    sampleDictTaxHistDict,  \* what the caller holds as Histogram Collection
    call                    \* the last call: operation, arguments, outcome

vars == <<heap, phylodistSweepDict, sampleDictTaxHistDict, call>>

NoCall ==
    [op |-> "none", arg |-> NotADict, level |-> "", metadata |-> NoMetadata,
     metadataValue |-> <<>>, sample |-> 0, status |-> "", refs |-> <<>>,
     reads |-> 0, base |-> 0]

\* References of the tables the caller holds between calls.
SampleRefs == {phylodistSweepDict[i].ref : i \in 1..Len(phylodistSweepDict)}
HistRefs ==
    UNION {Range(sampleDictTaxHistDict.entries[i].hists) :
              i \in 1..Len(sampleDictTaxHistDict.entries)}
CallerRefs == SampleRefs \cup HistRefs

\* The heap at the start of a call: what an earlier call returned is dropped.
BaseHeap == SubSeq(heap, 1, Cardinality(CallerRefs))

\* The Histogram Collection argument of a call: what the caller holds.
Arguments == {sampleDictTaxHistDict}

Init ==
    /\ \E ts \in SweepInputs :
          /\ heap = [i \in 1..Len(ts) |-> SampleTable(ts[i])]
          /\ phylodistSweepDict = [i \in 1..Len(ts) |-> [key |-> SampleKeys[i], ref |-> i]]
    /\ sampleDictTaxHistDict \in {NotADict, EmptyDict}
    /\ call = NoCall

\* computeAll(phylodistSweepDict[key])
ComputeAll ==
    \E i \in 1..Len(phylodistSweepDict) :
        \E hists \in {computeAll(heap[phylodistSweepDict[i].ref])}, n \in {Len(BaseHeap)} :
            /\ heap' = BaseHeap \o hists
            /\ call' = [NoCall EXCEPT !.op = "computeAll", !.sample = i,
                            !.status = "ok", !.base = n,
                            !.refs = [k \in 1..Len(hists) |-> n + k]]
            /\ UNCHANGED <<phylodistSweepDict, sampleDictTaxHistDict>>

\* sampleDictTaxHistDict = computeAllForSamples(phylodistSweepDict)
ComputeAllForSamples ==
    \E n \in {Len(phylodistSweepDict)} :
    \E r \in {computeAllForSamples(SubSeq(heap, 1, n), phylodistSweepDict)} :
        /\ heap' = r.heap
        /\ sampleDictTaxHistDict' = r.dict
        /\ call' = [NoCall EXCEPT !.op = "computeAllForSamples", !.status = "ok",
                        !.base = n, !.refs = [k \in 1..(Len(r.heap) - n) |-> n + k]]
        /\ UNCHANGED phylodistSweepDict

\* validateSampleDictTaxHistDict(arg)
Validate ==
    \E arg \in Arguments :
        /\ heap' = BaseHeap
        /\ call' = [NoCall EXCEPT !.op = "validate", !.arg = arg,
                        !.status = validateSampleDictTaxHistDict(arg),
                        !.base = Len(BaseHeap)]
        /\ UNCHANGED <<phylodistSweepDict, sampleDictTaxHistDict>>

\* mergeAcrossSamples(arg, level)
MergeAcrossSamples ==
    \E arg \in Arguments, level \in Range(TAXONOMY_HIERARCHY) \cup {UnknownLevel} :
        \E r \in {mergeAcrossSamples(BaseHeap, arg, level)} :
            /\ heap' = r.heap
            /\ call' = [NoCall EXCEPT !.op = "mergeAcrossSamples", !.arg = arg,
                            !.level = level, !.status = r.status,
                            !.refs = IF r.ref = 0 THEN <<>> ELSE <<r.ref>>,
                            !.reads = r.reads, !.base = Len(BaseHeap)]
            /\ UNCHANGED <<phylodistSweepDict, sampleDictTaxHistDict>>

\* mergeAcrossSamplesTaxLevels(arg), metadata left at its default None, or
\* mergeAcrossSamplesTaxLevels(arg, metadata) with something that is no table
MergeTaxLevelsNoTable ==
    \E arg \in Arguments, metadata \in {NoMetadata, NotADataFrame} :
        \E r \in {mergeAcrossSamplesTaxLevels(BaseHeap, arg, metadata)} :
            /\ heap' = r.heap
            /\ call' = [NoCall EXCEPT !.op = "mergeAcrossSamplesTaxLevels",
                            !.arg = arg, !.metadata = metadata,
                            !.status = r.status, !.refs = r.refs,
                            !.reads = r.reads, !.base = Len(BaseHeap)]
            /\ UNCHANGED <<phylodistSweepDict, sampleDictTaxHistDict>>

\* mergeAcrossSamplesTaxLevels(arg, metadata) with a Metadata Table the
\* caller has built
MergeTaxLevelsMetadata ==
    \E arg \in Arguments, keys \in MetadataKeys :
        \E a \in {Alloc(BaseHeap, MetadataTable(keys))} :
        \E r \in {mergeAcrossSamplesTaxLevels(a.heap, arg, MetadataFrame(a.ref))} :
            /\ heap' = r.heap
            /\ call' = [NoCall EXCEPT !.op = "mergeAcrossSamplesTaxLevels",
                            !.arg = arg, !.metadata = MetadataFrame(a.ref),
                            !.metadataValue = MetadataTable(keys),
                            !.status = r.status, !.refs = r.refs,
                            !.reads = r.reads, !.base = Len(a.heap)]
            /\ UNCHANGED <<phylodistSweepDict, sampleDictTaxHistDict>>

Next ==
    \/ ComputeAll
    \/ ComputeAllForSamples
    \/ Validate
    \/ MergeAcrossSamples
    \/ MergeTaxLevelsNoTable
    \/ MergeTaxLevelsMetadata

Spec == Init /\ [][Next]_vars

\* ------------------------------------------------------------- properties
Levels == 1..Len(TAXONOMY_HIERARCHY)
Recognized(level) == level \in Range(TAXONOMY_HIERARCHY)
IsMapping(arg) == arg.isDict
ValidCollection(arg) == arg.isDict /\ Len(arg.entries) >= 1
IsMergeCall == call.op = "mergeAcrossSamples"
IsTaxLevelsCall == call.op = "mergeAcrossSamplesTaxLevels"

\* The Level Histogram of the i-th sample of the call's argument at level lvl.
ArgHistogram(i, lvl) == heap[call.arg.entries[i].hists[lvl]]

\* The percent the histogram holds for the row key, NaN when it has no such row.
PercentOf(hist, key) == CellAt(hist, key, IndexOf(hist.columns, Str("percent")))

\* The columns of table t are the samples of the call's argument, in order.
OneColumnPerSample(t) ==
    t.columns = [i \in 1..Len(call.arg.entries) |-> Str(call.arg.entries[i].key)]

\* The prefix tuples of all samples' Level Histograms at level lvl.
UnionOfKeys(lvl) ==
    UNION {Range(ArgHistogram(i, lvl).index) : i \in 1..Len(call.arg.entries)}

\* Every cell (row key, sample) of t holds the sample's percent or NaN.
CellsArePercents(t, lvl) ==
    \A key \in UnionOfKeys(lvl) : \A i \in 1..Len(call.arg.entries) :
        CellAt(t, key, i) = PercentOf(ArgHistogram(i, lvl), key)

\* The caller's Level Histograms are what computeAll gives for its samples.
HistogramsIntact ==
    \A i \in 1..Len(sampleDictTaxHistDict.entries) : \A lvl \in Levels :
        heap[sampleDictTaxHistDict.entries[i].hists[lvl]]
            = LevelHistogram(heap[phylodistSweepDict[i].ref], lvl)

\* C1: validateSampleDictTaxHistDict raises TypeError for an argument that
\* is not a mapping, ValueError for a mapping with no entry, and returns
\* normally for a mapping with one or more entries, leaving the argument
\* and its tables as they were and creating no table.
C1_ValidateOutcome ==
    call.op = "validate" =>
        /\ ~IsMapping(call.arg) => call.status = "TypeError"
        /\ IsMapping(call.arg) /\ Len(call.arg.entries) = 0 => call.status = "ValueError"
        /\ ValidCollection(call.arg) =>
              /\ call.status = "ok"
              /\ sampleDictTaxHistDict = call.arg
              /\ Len(heap) = call.base
              /\ HistogramsIntact

C1_Witness ==
    /\ call.op = "validate"
    /\ Len(call.arg.entries) = 1
    /\ call.status = "ok"

\* C2: mergeAcrossSamples with a level name outside TAXONOMY_HIERARCHY
\* raises the unrecognized-level ValueError whatever the collection
\* argument is, having read no Level Histogram and created no table.
C2_UnknownLevelFailsFirst ==
    IsMergeCall /\ ~Recognized(call.level) =>
        /\ call.status = "ValueError:level"
        /\ call.reads = 0
        /\ call.refs = <<>>
        /\ Len(heap) = call.base

C2_Witness ==
    /\ IsMergeCall
    /\ ~Recognized(call.level)
    /\ Len(call.arg.entries) = 2
    /\ call.status = "ValueError:level"

\* C3: for a valid collection and a recognized level mergeAcrossSamples
\* returns a table with one column per sample in iteration order, whose
\* rows are exactly the union of the samples' prefix tuples at that level,
\* each cell holding the sample's percent for the prefix, NaN if it has none.
C3_MergedLevelTable ==
    IsMergeCall /\ ValidCollection(call.arg) /\ Recognized(call.level) =>
        /\ call.status = "ok"
        /\ Len(call.refs) = 1
        /\ LET t == heap[call.refs[1]]
               lvl == LevelIndex(call.level)
           IN  /\ OneColumnPerSample(t)
               /\ Range(t.index) = UnionOfKeys(lvl)
               /\ Cardinality(Range(t.index)) = Len(t.index)
               /\ CellsArePercents(t, lvl)

C3_Witness ==
    /\ IsMergeCall
    /\ call.status = "ok"
    /\ Len(call.arg.entries) = 2
    /\ LET t == heap[call.refs[1]]
       IN  \E r \in 1..Len(t.index) :
              /\ t.data[r][1] = FloatCell(100, 1)
              /\ t.data[r][2] = NaN

\* The sum of the count column of a Level Histogram.
CountSum(hist) ==
    SumSeq([r \in 1..Len(hist.index) |-> hist.data[r][1].n])

RECURSIVE FloatSum(_)
FloatSum(cells) ==
    IF cells = <<>> THEN FloatCell(0, 1)
    ELSE FloatAdd(Head(cells), FloatSum(Tail(cells)))

\* The Sample Table computeAll was called with.
ComputeAllInput == heap[phylodistSweepDict[call.sample].ref]

\* C4: at every level the counts of the Level Histogram computeAll returns
\* sum to the number of Records of the Sample Table.
C4_CountsSumToRecords ==
    call.op = "computeAll" =>
        \A lvl \in Levels :
            CountSum(heap[call.refs[lvl]]) = Len(ComputeAllInput.index)

\* C5: for a Sample Table with at least one Record, at every level each
\* percent is 100 * count / (sum of counts), lies in [0, 100], and the
\* percents sum to 100.
C5_PercentsSumTo100 ==
    call.op = "computeAll" /\ Len(ComputeAllInput.index) >= 1 =>
        \A lvl \in Levels :
            LET hist == heap[call.refs[lvl]]
                percent == Column(hist, Str("percent"))
            IN  /\ \A r \in 1..Len(hist.index) :
                      /\ percent[r] = FloatCell(100 * hist.data[r][1].n, CountSum(hist))
                      /\ 0 <= percent[r].n
                      /\ percent[r].n <= 100 * percent[r].d
                /\ FloatSum(percent) = FloatCell(100, 1)

C7_ValidationAlwaysFirst ==
    IsMergeCall \/ IsTaxLevelsCall =>
        /\ ~IsMapping(call.arg) => call.status = "TypeError"
        /\ IsMapping(call.arg) /\ Len(call.arg.entries) = 0 => call.status = "ValueError"

\* C7 amended: mergeAcrossSamplesTaxLevels validates first, whatever the
\* metadata argument is; mergeAcrossSamples checks the level name first and
\* validates next, so validation decides the outcome only for a recognized
\* level.  A failing call reads no Level Histogram and creates no table.
C7_ValidationAfterLevelCheck ==
    (IsMergeCall \/ IsTaxLevelsCall) /\ ~ValidCollection(call.arg) =>
        /\ call.reads = 0
        /\ call.refs = <<>>
        /\ Len(heap) = call.base
        /\ IF IsMergeCall /\ ~Recognized(call.level)
           THEN call.status = "ValueError:level"
           ELSE call.status = IF IsMapping(call.arg) THEN "ValueError" ELSE "TypeError"

C7_Witness ==
    /\ IsTaxLevelsCall
    /\ ~IsMapping(call.arg)
    /\ call.metadata.kind = "other"
    /\ call.status = "TypeError"

\* C8: with the metadata argument left at None and a valid collection,
\* mergeAcrossSamplesTaxLevels completes and returns for every level the
\* Merged Level Table with no metadata row.
C8_NoMetadataPassThrough ==
    IsTaxLevelsCall /\ call.metadata.kind = "None" /\ ValidCollection(call.arg) =>
        /\ call.status = "ok"
        /\ Len(call.refs) = Len(TAXONOMY_HIERARCHY)
        /\ \A lvl \in Levels :
              LET t == heap[call.refs[lvl]]
              IN  /\ OneColumnPerSample(t)
                  /\ Range(t.index) = UnionOfKeys(lvl)
                  /\ CellsArePercents(t, lvl)

\* C9: no call changes a table the caller supplied: every Sample Table and
\* every Level Histogram the caller holds is the same object with the same
\* content after the call, the Level Histograms still have the columns
\* count and percent, the Metadata Table is as it was passed, and every
\* table returned is a new object.
C9_InputsUnchanged ==
    [][/\ \A r \in CallerRefs : r <= Len(heap') /\ heap'[r] = heap[r]
       /\ \A r \in HistRefs' : heap'[r].columns = <<Str("count"), Str("percent")>>
       /\ call'.metadata.kind = "DataFrame" =>
             heap'[call'.metadata.ref] = call'.metadataValue
       /\ \A k \in 1..Len(call'.refs) : call'.refs[k] > call'.base]_vars

C9_Witness ==
    /\ IsTaxLevelsCall
    /\ call.status = "ok"
    /\ Len(call.arg.entries) = 2
    /\ \A r \in HistRefs : heap[r].columns = <<Str("count"), Str("percent")>>
    /\ heap[call.metadata.ref] = call.metadataValue

\* C10: in every table mergeAcrossSamplesTaxLevels returns, row keys that
\* are prefix tuples of arity k > 1 come with a MultiIndex whose k levels
\* are named by the first k names of TAXONOMY_HIERARCHY; single-valued row
\* keys come with an index named by the level.
C10_IndexLabelled ==
    IsTaxLevelsCall /\ call.status = "ok" =>
        \A lvl \in Levels :
            LET t == heap[call.refs[lvl]]
            IN  IF IsTuple(t.index[1])
                THEN /\ t.indexKind = "MultiIndex"
                     /\ t.indexNames = SubSeq(TAXONOMY_HIERARCHY, 1, Len(t.index[1].tup))
                ELSE t.indexNames = <<TAXONOMY_HIERARCHY[lvl]>>

====
